---- MODULE Spec2Model ----
(***************************************************************************)
(* Routing and orchestration core of the finance assistant:                *)
(*   - the fast router (src/src/orchestration/router.py),                  *)
(*   - the supervisor's response parser (src/src/orchestration/            *)
(*     supervisor.py),                                                     *)
(*   - the workflow graph and its nodes (src/src/orchestration/graph.py,   *)
(*     nodes.py), run by a checkpointed graph engine per thread,           *)
(*   - the context trimmer (src/src/utils/context_manager.py).             *)
(*                                                                         *)
(* Strings are abstracted.  A text is a sequence of lines, a line is a     *)
(* record [k, a, n].  A user's question is a one-line text whose line      *)
(* names an entry of the Questions table; the table holds, per question,   *)
(* what the regular expressions and substring tests of the code yield on   *)
(* its lower-cased text.  Confidences are exact rationals [n, d].          *)
(***************************************************************************)
EXTENDS Integers, Sequences, FiniteSets, TLC

\* ------------------------------------------------------------------ bounds
MaxRequests == 2        \* requests served per thread
MaxMessages == 4        \* a request starts only while Len(messages) < MaxMessages
MaxSecondary == 2       \* longest secondary_agents list in a generated JSON
MaxKwTotal == 6         \* largest raw keyword total of the router inputs
MaxRunnerUp == 3        \* largest raw keyword total of the second agent
MaxWords == 8           \* largest word count of the router inputs
MaxTrimLen == 17        \* longest message list given to the trimmer
MaxFailures == 1        \* handler calls per thread that fail inside
MaxGoals == 2           \* goals created in the process
MaxToolCalls == 3       \* goal tool calls made by all threads together
MaxEarlier == 2         \* handlers of a plan that ran before the one observed

\* ------------------------------------------------------------- AgentType
AgentType == {"education", "goal_planning", "portfolio", "market", "news"}

\* the market patterns tried before the portfolio patterns
PatternOrder_market_first ==
    <<"market", "portfolio", "goal_planning", "news", "education">>

\* iteration order of the EXACT_PATTERNS and KEYWORD_WEIGHTS dictionaries
PatternOrder == <<"portfolio", "goal_planning", "market", "news", "education">>

None == "none"

\* ------------------------------------------------------------ rationals
\* exact fractions in lowest terms, d > 0
RECURSIVE Gcd(_, _)
Gcd(a, b) == IF b = 0 THEN a ELSE Gcd(b, a % b)
Abs(x) == IF x < 0 THEN 0 - x ELSE x
Frac(n, d) == LET g == Gcd(Abs(n), d) IN [n |-> n \div g, d |-> d \div g]
FracGE(x, y) == x.n * y.d >= y.n * x.d
FracGT(x, y) == x.n * y.d > y.n * x.d
FracLT(x, y) == x.n * y.d < y.n * x.d
FracEQ(x, y) == x.n * y.d = y.n * x.d
FracAdd(x, y) == Frac(x.n * y.d + y.n * x.d, x.d * y.d)
FracSub(x, y) == Frac(x.n * y.d - y.n * x.d, x.d * y.d)
FracMin(x, y) == IF FracLT(y, x) THEN y ELSE x
FracMax(x, y) == IF FracGT(y, x) THEN y ELSE x
\* the value is passed through without clamping
Clamp01_unclamped(x) == x

Clamp01(x) == FracMax(Frac(0, 1), FracMin(Frac(1, 1), x))

\* ---------------------------------------------------------- fast router
DIRECT_ROUTE_THRESHOLD == Frac(85, 100)

NoHints == [pattern_matched |-> None, keyword_scores |-> <<>>]

\* RouterDecision(route, agent, confidence, context_hints)
RouterDecision(route, agent, confidence, hints) ==
    [route |-> route, agent |-> agent, confidence |-> confidence,
     context_hints |-> hints]

NoDecision == RouterDecision(None, None, Frac(0, 1), NoHints)

\* context = {"user_context": {...}, "last_agent": ...}; a key of
\* user_context that is absent has the value "unset"
NoUserContext ==
    [has_portfolio |-> "unset", investment_stage |-> "unset",
     active_goals |-> "unset"]

NoContext == [present |-> FALSE, user_context |-> NoUserContext,
              last_agent |-> None]

Context(uc, last) == [present |-> TRUE, user_context |-> uc, last_agent |-> last]

\* the topic-continuity boost left out
_adjust_confidence_for_context_no_continuity(confidence, agent_type, context) ==
    LET uc == context.user_context
        c2 == IF agent_type = "portfolio" /\ uc.has_portfolio = "false"
              THEN FracSub(confidence, Frac(20, 100)) ELSE confidence
        c3 == IF agent_type = "goal_planning" /\ uc.active_goals = "nonempty"
              THEN FracAdd(c2, Frac(5, 100)) ELSE c2
        c4 == IF agent_type = "news" /\ uc.investment_stage = "potential"
              THEN FracAdd(c3, Frac(5, 100)) ELSE c3
    IN  Clamp01(c4)

_adjust_confidence_for_context(confidence, agent_type, context) ==
    LET c1 == IF context.last_agent = agent_type
              THEN FracAdd(confidence, Frac(5, 100)) ELSE confidence
        uc == context.user_context
        \* user_context.get("has_portfolio", True): only an explicit False counts
        c2 == IF agent_type = "portfolio" /\ uc.has_portfolio = "false"
              THEN FracSub(c1, Frac(20, 100)) ELSE c1
        c3 == IF agent_type = "goal_planning" /\ uc.active_goals = "nonempty"
              THEN FracAdd(c2, Frac(5, 100)) ELSE c2
        c4 == IF agent_type = "news" /\ uc.investment_stage = "potential"
              THEN FracAdd(c3, Frac(5, 100)) ELSE c3
    IN  Clamp01(c4)

\* confidence of a pattern match of agent_type under the context
PatternConfidence(agent_type, context) ==
    IF context.present
    THEN _adjust_confidence_for_context(Frac(95, 100), agent_type, context)
    ELSE Frac(95, 100)

RECURSIVE PatternScan(_, _, _)
PatternScan(q, context, i) ==
    IF i > Len(PatternOrder) THEN NoDecision
    ELSE LET agent_type == PatternOrder[i]
             confidence == PatternConfidence(agent_type, context)
         IN  IF agent_type \in q.pat /\ FracGE(confidence, DIRECT_ROUTE_THRESHOLD)
             THEN RouterDecision("direct", agent_type, confidence,
                      [pattern_matched |-> agent_type, keyword_scores |-> <<>>])
             ELSE PatternScan(q, context, i + 1)

RECURSIVE PatternScanNoThreshold(_, _, _)
PatternScanNoThreshold(q, context, i) ==
    IF i > Len(PatternOrder) THEN NoDecision
    ELSE LET agent_type == PatternOrder[i]
         IN  IF agent_type \in q.pat
             THEN RouterDecision("direct", agent_type,
                      PatternConfidence(agent_type, context),
                      [pattern_matched |-> agent_type, keyword_scores |-> <<>>])
             ELSE PatternScanNoThreshold(q, context, i + 1)

\* a pattern match routes direct whatever the adjusted confidence is
_try_pattern_matching_unguarded(q, context) == PatternScanNoThreshold(q, context, 1)

\* NoDecision stands for the None the code returns
_try_pattern_matching(q, context) == PatternScan(q, context, 1)

WordDivisor(q) == IF q.words > 5 THEN q.words ELSE 5

\* (total_score / max(word_count, 5)) * 10, capped at 10
_calculate_keyword_score(q, agent_type) ==
    FracMin(Frac(q.kw[agent_type] * 10, WordDivisor(q)), Frac(10, 1))

\* sorted(scores.items(), key=score, reverse=True): a stable sort, so agents
\* with equal scores keep the dictionary order
RankBefore(q, i, j) ==
    LET si == _calculate_keyword_score(q, PatternOrder[i])
        sj == _calculate_keyword_score(q, PatternOrder[j])
    IN  FracGT(si, sj) \/ (FracEQ(si, sj) /\ i < j)

RankOf(q, i) == 1 + Cardinality({j \in 1..Len(PatternOrder) : RankBefore(q, j, i)})

sorted_agents(q) ==
    [r \in 1..Len(PatternOrder) |->
        PatternOrder[CHOOSE i \in 1..Len(PatternOrder) : RankOf(q, i) = r]]

\* base confidence with the margin bonus or penalty, before context adjustment
MarginConfidence(winner_score, runner_up_score) ==
    LET base == FracMin(Frac(winner_score.n, winner_score.d * 10), Frac(9, 10))
        margin == FracSub(winner_score, runner_up_score)
    IN  IF FracGT(margin, Frac(3, 1)) THEN FracAdd(base, Frac(10, 100))
        ELSE IF FracGT(margin, Frac(2, 1)) THEN FracAdd(base, Frac(5, 100))
        ELSE IF FracLT(margin, Frac(1, 1)) THEN FracSub(base, Frac(15, 100))
        ELSE base

_calculate_confidence(winner_score, runner_up_score, context, winner) ==
    IF winner_score.n = 0 THEN Frac(0, 1)
    ELSE LET b1 == MarginConfidence(winner_score, runner_up_score)
             b2 == IF context.present
                   THEN _adjust_confidence_for_context(b1, winner, context)
                   ELSE b1
         IN  Clamp01(b2)

KeywordConfidence(q, context) ==
    LET ranked == sorted_agents(q)
    IN  _calculate_confidence(_calculate_keyword_score(q, ranked[1]),
                              _calculate_keyword_score(q, ranked[2]),
                              context, ranked[1])

_try_keyword_scoring(q, context) ==
    LET ranked == sorted_agents(q)
        confidence == KeywordConfidence(q, context)
    IN  IF FracGE(confidence, DIRECT_ROUTE_THRESHOLD)
        THEN RouterDecision("direct", ranked[1], confidence,
                 [pattern_matched |-> None,
                  keyword_scores |-> SubSeq(ranked, 1, 3)])
        ELSE NoDecision

_fallback_to_supervisor ==
    RouterDecision("supervisor", None, Frac(0, 1), NoHints)

fast_route(q, context) ==
    LET pattern_decision == _try_pattern_matching(q, context)
        keyword_decision == _try_keyword_scoring(q, context)
    IN  IF pattern_decision # NoDecision THEN pattern_decision
        ELSE IF keyword_decision # NoDecision THEN keyword_decision
        ELSE _fallback_to_supervisor

\* ------------------------------------------------------------ questions
\* What the code's tests yield on each question's lower-cased text:
\*   pat      agents with at least one matching EXACT_PATTERNS entry
\*   kw       raw KEYWORD_WEIGHTS total per agent
\*   words    len(question.split())
\*   research contains "should i invest" or "thinking about investing"
\*   create   contains "create" or "new goal"
\*   fb       keyword classes of _fallback_decision present in the text
Kw(p, g, m, n, e) ==
    [a \in AgentType |->
        CASE a = "portfolio" -> p [] a = "goal_planning" -> g
          [] a = "market" -> m [] a = "news" -> n [] OTHER -> e]

QuestionFeatures(qid) ==
    CASE qid = "How is my portfolio performing?" ->
            [pat |-> {"portfolio", "market"}, kw |-> Kw(3, 0, 4, 0, 0), words |-> 5,
             research |-> FALSE, create |-> FALSE, fb |-> {"portfolio"}]
      [] qid = "I'm thinking about investing in Tesla" ->
            [pat |-> {"news"}, kw |-> Kw(0, 0, 0, 2, 1), words |-> 6,
             research |-> TRUE, create |-> FALSE, fb |-> {"news"}]
      [] qid = "Help me create a goal" ->
            [pat |-> {"goal_planning"}, kw |-> Kw(0, 3, 0, 0, 1), words |-> 5,
             research |-> FALSE, create |-> TRUE, fb |-> {"goal"}]
      [] qid = "I need a 401k question" ->
            [pat |-> {}, kw |-> Kw(0, 2, 0, 0, 1), words |-> 5,
             research |-> FALSE, create |-> FALSE, fb |-> {"tax"}]
      [] qid = "Tell me about Apple" ->
            [pat |-> {"education"}, kw |-> Kw(0, 0, 0, 0, 1), words |-> 4,
             research |-> FALSE, create |-> FALSE, fb |-> {}]
      [] qid = "Should I invest in Tesla?" ->
            [pat |-> {}, kw |-> Kw(0, 0, 0, 0, 0), words |-> 5,
             research |-> TRUE, create |-> FALSE, fb |-> {"news"}]
      [] qid = "Any tax on my goal?" ->
            [pat |-> {}, kw |-> Kw(0, 3, 0, 0, 0), words |-> 5,
             research |-> FALSE, create |-> FALSE, fb |-> {"goal", "tax"}]
      [] qid = "Should I save on market risks?" ->
            [pat |-> {}, kw |-> Kw(2, 3, 3, 3, 0), words |-> 6,
             research |-> FALSE, create |-> FALSE, fb |-> {"goal", "market", "news"}]
      [] qid = "Tax on my portfolio holdings" ->
            [pat |-> {}, kw |-> Kw(6, 0, 0, 0, 0), words |-> 5,
             research |-> FALSE, create |-> FALSE, fb |-> {"portfolio", "tax"}]
      [] OTHER -> \* "Hello there"
            [pat |-> {}, kw |-> Kw(0, 0, 0, 0, 0), words |-> 2,
             research |-> FALSE, create |-> FALSE, fb |-> {}]

Questions ==
    {"How is my portfolio performing?", "I'm thinking about investing in Tesla",
     "Help me create a goal", "I need a 401k question", "Tell me about Apple",
     "Hello there"}

\* ----------------------------------------------------------------- texts
Line(k, a, n) == [k |-> k, a |-> a, n |-> n]
UserText(qid) == <<Line("user", qid, 0)>>
Message(role, content) == [role |-> role, content |-> content]

\* the lower-cased text contains a research-intent phrase
ContainsResearchIntent(text) ==
    \E i \in 1..Len(text) : text[i].k = "user" /\ QuestionFeatures(text[i].a).research

\* the lower-cased text contains "create" or "new goal"
ContainsCreateGoal(text) ==
    \E i \in 1..Len(text) : text[i].k = "user" /\ QuestionFeatures(text[i].a).create

\* ------------------------------------------------------------ supervisor
SupervisorDecision(primary, secondary, mode, steps) ==
    [primary_agent |-> primary, secondary_agents |-> secondary,
     execution_mode |-> mode, workflow_steps |-> steps]

NoSupervisorDecision == SupervisorDecision(None, <<>>, None, <<>>)

Returned(decision) == [raised |-> FALSE, exc |-> "", decision |-> decision]
Raised(exc) == [raised |-> TRUE, exc |-> exc, decision |-> NoSupervisorDecision]

\* AgentType.TAX is not a member of the enumeration: evaluating it raises
FallbackAgent(fb) ==
    IF "portfolio" \in fb THEN "portfolio"
    ELSE IF "goal" \in fb THEN "goal_planning"
    ELSE IF "market" \in fb THEN "market"
    ELSE IF "news" \in fb THEN "news"
    ELSE IF "tax" \in fb THEN "AgentType.TAX"
    ELSE "education"

_fallback_decision(qid) ==
    LET agent == FallbackAgent(QuestionFeatures(qid).fb)
    IN  IF agent \in AgentType
        THEN Returned(SupervisorDecision(agent, <<>>, "single", <<>>))
        ELSE Raised("AttributeError")

\* the raw output of the generation service
LLMResponse(kind, primary, secondary, iterable, mode) ==
    [kind |-> kind, primary_agent |-> primary, secondary_agents |-> secondary,
     secondary_iterable |-> iterable, execution_mode |-> mode]

\* invalid names are kept
ValidAgents_unfiltered(names) == names

ValidAgents(names) == SelectSeq(names, LAMBDA s : s \in AgentType)

_parse_supervisor_response(response, qid) ==
    IF response.kind = "json"
    THEN IF ~response.secondary_iterable
         THEN _fallback_decision(qid)      \* TypeError caught
         ELSE LET primary_agent == IF response.primary_agent \in AgentType
                                   THEN response.primary_agent ELSE "education"
                  secondary_agents == ValidAgents(response.secondary_agents)
                  execution_mode ==
                      IF response.execution_mode \in {"single", "sequential", "parallel"}
                      THEN response.execution_mode ELSE "single"
                  workflow_steps ==
                      IF execution_mode = "sequential" /\ secondary_agents # <<>>
                      THEN <<primary_agent>> \o secondary_agents \o <<"synthesize">>
                      ELSE <<>>
              IN  Returned(SupervisorDecision(primary_agent, secondary_agents,
                                              execution_mode, workflow_steps))
    ELSE _fallback_decision(qid)           \* no JSON, or JSONDecodeError

supervisor_route(qid, response) ==
    IF response.kind = "config_error" THEN Raised("ConfigError")
    ELSE IF response.kind = "service_error" THEN Raised("ServiceError")
    ELSE _parse_supervisor_response(response, qid)

\* names a generated JSON may carry; "tax" is offered by the prompt but is
\* not an AgentType
JsonPrimaryNames == {"portfolio", "tax"}
JsonSecondaryNames == {"news", "tax"}
JsonModes == {"single", "sequential", "parallel", "batch"}

SeqsUpTo(S, n) == UNION {[1..k -> S] : k \in 0..n}

LLMResponses ==
    {LLMResponse(k, None, <<>>, TRUE, None) :
        k \in {"config_error", "service_error", "text", "badjson"}}
    \cup {LLMResponse("json", p, s, TRUE, m) :
            p \in JsonPrimaryNames, s \in SeqsUpTo(JsonSecondaryNames, MaxSecondary),
            m \in JsonModes}
    \cup {LLMResponse("json", "goal_planning", <<>>, FALSE, "sequential"),
          LLMResponse("json", "portfolio", <<"portfolio">>, TRUE, "sequential")}

\* ------------------------------------------------------ context trimmer
DEFAULT_MAX_MESSAGES == 10

agent_context_sizes(agent_type) ==
    CASE agent_type \in {"education", "market", "news"} -> 6
      [] agent_type \in {"goal_planning", "portfolio"} -> 15
      [] OTHER -> DEFAULT_MAX_MESSAGES

\* a HumanMessage becomes a "user" dict, an AIMessage an "assistant" dict,
\* any other message object a "system" dict; content is kept
langchain_to_dict_message(msg) ==
    [role |-> IF msg.role \in {"user", "assistant"} THEN msg.role ELSE "system",
     content |-> msg.content]

convert_to_dict_messages(msgs) ==
    [i \in 1..Len(msgs) |-> langchain_to_dict_message(msgs[i])]

\* keeps the first max_messages messages instead of the last
trim_conversation_history_head(msgs, max_messages) ==
    IF msgs = <<>> THEN msgs
    ELSE LET dict_messages == convert_to_dict_messages(msgs)
         IN  IF Len(dict_messages) <= max_messages THEN dict_messages
             ELSE SubSeq(dict_messages, 1, max_messages)

trim_conversation_history(msgs, max_messages) ==
    IF msgs = <<>> THEN msgs
    ELSE LET dict_messages == convert_to_dict_messages(msgs)
         IN  IF Len(dict_messages) <= max_messages THEN dict_messages
             ELSE SubSeq(dict_messages, Len(dict_messages) - max_messages + 1,
                         Len(dict_messages))

trim_for_agent(msgs, agent_type) ==
    trim_conversation_history(msgs, agent_context_sizes(agent_type))

\* ----------------------------------------------------------------- state
VARIABLES
    \* FinancialAssistantState, checkpointed per thread
    messages, router_decision, supervisor_decision, user_context,
    agent_results, current_agent, agents_completed, execution_plan,
    final_response,
    \* the graph engine: next node to run ("idle" before the first request,
    \* "END" after a completed run, "RAISED" after an exception left the run)
    pc,
    \* which entry point serves the thread: "cli" (main_langgraph.py) or
    \* "web" (web_app/app.py); each owns its own in-memory checkpointer
    caller,
    \* history of the current request: nodes run, texts the handlers returned,
    \* the exception that escaped, and the number of requests started so far
    trace, returned, error, requests,
    \* every call of fast_route made for the thread so far: its arguments and
    \* the decision it returned
    routed,
    \* fast_route applied to free inputs
    r_question, r_context, r_decision,
    \* trim_for_agent applied to free inputs
    t_messages, t_agent, t_result,
    \* supervisor_route applied to free inputs
    s_question, s_response, s_result,
    \* the module-level goal store of the process, what the goal tools
    \* returned to each thread id, and for each thread id the store and the
    \* returns of the same calls made with no other thread running
    GOALS_SESSION, g_seen, g_alone,
    \* the state update of a handler step applied to free inputs: the
    \* conversation, the handler, the user context, and the context it returns
    h_messages, h_agent, h_context, h_result

threadVars == <<messages, router_decision, supervisor_decision, user_context,
                agent_results, current_agent, agents_completed, execution_plan,
                final_response>>
runVars == <<pc, caller, trace, returned, error, requests, routed>>
routerVars == <<r_question, r_context, r_decision>>
trimVars == <<t_messages, t_agent, t_result>>
supVars == <<s_question, s_response, s_result>>
goalVars == <<GOALS_SESSION, g_seen, g_alone>>
handlerVars == <<h_messages, h_agent, h_context, h_result>>
vars == <<threadVars, runVars, routerVars, trimVars, supVars, goalVars, handlerVars>>

\* Optional[ExecutionPlan]
NoPlan == [present |-> FALSE, agents_queue |-> <<>>, current_index |-> 0,
           needs_synthesis |-> FALSE]

\* Optional[str]
NoResponse == [set |-> FALSE, text |-> <<>>]
Some(text) == [set |-> TRUE, text |-> text]

\* agent_results: a dict in insertion order, as a sequence of entries
Entry(agent, result) == [agent |-> agent, result |-> result]
HasKey(d, k) == \E i \in 1..Len(d) : d[i].agent = k
DictSet(d, k, v) ==
    IF HasKey(d, k)
    THEN [i \in 1..Len(d) |-> IF d[i].agent = k THEN Entry(k, v) ELSE d[i]]
    ELSE Append(d, Entry(k, v))
Keys(d) == [i \in 1..Len(d) |-> d[i].agent]

\* ask_question of every handler catches all exceptions: it returns the
\* agent's answer, or the text "Error: ..." when something failed inside
HandlerOutcomes == {"answer", "error"}

\* the text the handler of agent_type returns when called with `at` messages
\* in the conversation
AGENT_FUNCTIONS(agent_type, at, outcome) ==
    <<Line(IF outcome = "error" THEN "error" ELSE "resp", agent_type, at)>>

LastQuestion(msgs) == msgs[Len(msgs)].content[1].a

_update_user_context(question, agent_type, uc) ==
    LET u1 == IF agent_type = "portfolio"
              THEN [uc EXCEPT !.has_portfolio = "true", !.investment_stage = "current"]
              ELSE uc
        u2 == IF agent_type = "news" /\ ContainsResearchIntent(question)
              THEN [u1 EXCEPT !.investment_stage = "potential"]
              ELSE u1
        u3 == IF agent_type = "goal_planning" /\ ContainsCreateGoal(question)
                 /\ u2.active_goals = "unset"
              THEN [u2 EXCEPT !.active_goals = "empty"]
              ELSE u2
    IN  u3

RECURSIVE Sections(_)
Sections(d) ==
    IF d = <<>> THEN <<>>
    ELSE <<Line("hdr", d[1].agent, 0), Line("rule", "", 0)>> \o d[1].result
         \o <<Line("blank", "", 0)>> \o Sections(Tail(d))

_synthesize_multi_agent_results(d) ==
    Sections(d) \o <<Line("rule", "", 0), Line("title", "", 0), Line("rule", "", 0),
                     Line("summary", "", Len(d))>>

\* ------------------------------------------------- conditional edges
route_after_fast_router(decision) ==
    IF decision = NoDecision \/ decision.route = "supervisor"
    THEN "supervisor" ELSE decision.agent

route_after_supervisor(decision) ==
    IF decision = NoSupervisorDecision THEN "education"
    ELSE IF decision.execution_mode = "single" THEN decision.primary_agent
    ELSE (<<decision.primary_agent>> \o decision.secondary_agents)[1]

route_after_agent(plan) == IF plan.present THEN "sequence_router" ELSE "END"

\* re-reads the queue entry of the handler that has just completed
route_sequence_stale_index(plan) ==
    IF ~plan.present THEN "END"
    ELSE IF plan.current_index < Len(plan.agents_queue)
         THEN plan.agents_queue[plan.current_index]
         ELSE "synthesizer"

\* stops one entry early
route_sequence_off_by_one(plan) ==
    IF ~plan.present THEN "END"
    ELSE IF plan.current_index < Len(plan.agents_queue) - 1
         THEN plan.agents_queue[plan.current_index + 1]
         ELSE "synthesizer"

route_sequence(plan) ==
    IF ~plan.present THEN "END"
    ELSE IF plan.current_index < Len(plan.agents_queue)
         THEN plan.agents_queue[plan.current_index + 1]
         ELSE "synthesizer"

\* ----------------------------------------------------------------- Init
RouterIdle ==
    /\ r_question = QuestionFeatures("Hello there")
    /\ r_context = NoContext
    /\ r_decision = NoDecision

NotTrimmed == [set |-> FALSE, msgs |-> <<>>]

TrimIdle ==
    /\ t_messages = <<>>
    /\ t_agent = "general"
    /\ t_result = NotTrimmed

NotSupervised == [set |-> FALSE, out |-> Returned(NoSupervisorDecision)]

SupervisorIdle ==
    /\ s_question = "Hello there"
    /\ s_response = LLMResponse("text", None, <<>>, TRUE, None)
    /\ s_result = NotSupervised

NotUpdated == [set |-> FALSE, user_context |-> NoUserContext]

HandlerIdle ==
    /\ h_messages = <<>>
    /\ h_agent = "education"
    /\ h_context = NoUserContext
    /\ h_result = NotUpdated

ThreadIds == {"A", "B"}

EmptyGoals == [goals |-> <<>>, current_goal_id |-> 0]

GoalIdle ==
    /\ GOALS_SESSION = EmptyGoals
    /\ g_seen = [t \in ThreadIds |-> <<>>]
    /\ g_alone = [t \in ThreadIds |-> [session |-> EmptyGoals, seen |-> <<>>]]

ThreadInit ==
    /\ messages = <<>>
    /\ router_decision = NoDecision
    /\ supervisor_decision = NoSupervisorDecision
    /\ user_context = NoUserContext
    /\ agent_results = <<>>
    /\ current_agent = None
    /\ agents_completed = <<>>
    /\ execution_plan = NoPlan
    /\ final_response = NoResponse
    /\ pc = "idle"
    /\ trace = <<>>
    /\ returned = <<>>
    /\ error = ""
    /\ requests = 0
    /\ routed = <<>>

Init ==
    /\ ThreadInit
    /\ caller \in {"cli", "web"}
    /\ RouterIdle
    /\ TrimIdle
    /\ SupervisorIdle
    /\ GoalIdle
    /\ HandlerIdle

\* -------------------------------------------------------------- requests
CanStart ==
    /\ pc \in {"idle", "END", "RAISED"}
    /\ requests < MaxRequests
    /\ Len(messages) < MaxMessages

StartRun ==
    /\ pc' = "fast_router"
    /\ trace' = <<>>
    /\ returned' = <<>>
    /\ error' = ""
    /\ requests' = requests + 1
    /\ UNCHANGED <<caller, routed, routerVars, trimVars, supVars, goalVars, handlerVars>>

\* main_langgraph.ask_assistant: the input carries the new message and empty
\* user_context, agent_results and agents_completed; the other channels keep
\* their checkpointed values
ask_assistant(question) ==
    /\ caller = "cli"
    /\ CanStart
    /\ messages' = Append(messages, Message("user", UserText(question)))
    /\ user_context' = NoUserContext
    /\ agent_results' = <<>>
    /\ agents_completed' = <<>>
    /\ UNCHANGED <<router_decision, supervisor_decision, current_agent,
                   execution_plan, final_response>>
    /\ StartRun

\* web_app.chat_with_assistant: the input carries only the new message
chat_with_assistant(question) ==
    /\ caller = "web"
    /\ CanStart
    /\ messages' = Append(messages, Message("user", UserText(question)))
    /\ UNCHANGED <<router_decision, supervisor_decision, user_context,
                   agent_results, current_agent, agents_completed,
                   execution_plan, final_response>>
    /\ StartRun

\* ----------------------------------------------------------------- nodes
RoutingCall(question, context, decision) ==
    [question |-> question, context |-> context, decision |-> decision]

\* the call also stores the routed agent as the thread's current agent
fast_router_node_records_agent ==
    /\ pc = "fast_router"
    /\ LET question == LastQuestion(messages)
           context == Context(user_context, current_agent)
           decision == fast_route(QuestionFeatures(question), context)
       IN  /\ router_decision' = decision
           /\ current_agent' = decision.agent
           /\ routed' = Append(routed, RoutingCall(question, context, decision))
           /\ pc' = route_after_fast_router(decision)
    /\ trace' = Append(trace, "fast_router")
    /\ UNCHANGED <<messages, supervisor_decision, user_context, agent_results,
                   agents_completed, execution_plan,
                   final_response, caller, returned, error, requests,
                   routerVars, trimVars, supVars, goalVars, handlerVars>>

fast_router_node ==
    /\ pc = "fast_router"
    /\ LET question == LastQuestion(messages)
           context == Context(user_context, current_agent)
           decision == fast_route(QuestionFeatures(question), context)
       IN  /\ router_decision' = decision
           /\ routed' = Append(routed, RoutingCall(question, context, decision))
           /\ pc' = route_after_fast_router(decision)
    /\ trace' = Append(trace, "fast_router")
    /\ UNCHANGED <<messages, supervisor_decision, user_context, agent_results,
                   current_agent, agents_completed, execution_plan,
                   final_response, caller, returned, error, requests,
                   routerVars, trimVars, supVars, goalVars, handlerVars>>

\* a plan is built for the sequential mode only
PlanFor_sequential_only(decision) ==
    IF decision.execution_mode = "sequential"
    THEN [present |-> TRUE,
          agents_queue |-> <<decision.primary_agent>> \o decision.secondary_agents,
          current_index |-> 0, needs_synthesis |-> TRUE]
    ELSE NoPlan

PlanFor(decision) ==
    IF decision.execution_mode \in {"sequential", "parallel"}
    THEN [present |-> TRUE,
          agents_queue |-> <<decision.primary_agent>> \o decision.secondary_agents,
          current_index |-> 0, needs_synthesis |-> TRUE]
    ELSE NoPlan

supervisor_node(response) ==
    /\ pc = "supervisor"
    /\ trace' = Append(trace, "supervisor")
    /\ LET r == supervisor_route(LastQuestion(messages), response)
       IN  IF r.raised
           THEN /\ pc' = "RAISED"
                /\ error' = r.exc
                /\ UNCHANGED <<supervisor_decision, execution_plan>>
           ELSE /\ supervisor_decision' = r.decision
                /\ execution_plan' = PlanFor(r.decision)
                /\ pc' = route_after_supervisor(r.decision)
                /\ error' = ""
    /\ UNCHANGED <<messages, router_decision, user_context, agent_results,
                   current_agent, agents_completed, final_response, caller,
                   returned, requests, routed, routerVars, trimVars, supVars, goalVars, handlerVars>>

\* handler calls of the thread that returned an error text: the handler's
\* own message is the one numbered with its position in the conversation
Failures ==
    Cardinality({i \in 1..Len(messages) :
                    /\ messages[i].role = "assistant"
                    /\ \E j \in 1..Len(messages[i].content) :
                          /\ messages[i].content[j].k = "error"
                          /\ messages[i].content[j].n = i - 1})

\* the text the handler step takes for the question: the content of the
\* last message of the trimmed conversation
last_question_of(msgs, agent_type) ==
    LET trimmed_messages == trim_for_agent(msgs, agent_type)
    IN  IF trimmed_messages = <<>> THEN <<>>
        ELSE trimmed_messages[Len(trimmed_messages)].content

_execute_agent_node(agent_type, outcome) ==
    /\ pc = agent_type
    /\ outcome = "error" => Failures < MaxFailures
    /\ LET response == AGENT_FUNCTIONS(agent_type, Len(messages), outcome)
           last_question == last_question_of(messages, agent_type)
           plan == IF execution_plan.present
                   THEN [execution_plan EXCEPT !.current_index = @ + 1]
                   ELSE execution_plan
       IN  /\ agent_results' = DictSet(agent_results, agent_type, response)
           /\ agents_completed' = Append(agents_completed, agent_type)
           /\ messages' = Append(messages, Message("assistant", response))
           /\ user_context' = _update_user_context(last_question, agent_type, user_context)
           /\ execution_plan' = plan
           /\ current_agent' = agent_type
           /\ final_response' = Some(response)
           /\ returned' = Append(returned, response)
           /\ pc' = route_after_agent(plan)
    /\ trace' = Append(trace, agent_type)
    /\ UNCHANGED <<router_decision, supervisor_decision, caller, error,
                   requests, routed, routerVars, trimVars, supVars, goalVars, handlerVars>>

\* the node advances the plan itself
sequence_router_node_advances ==
    /\ pc = "sequence_router"
    /\ pc' = route_sequence(execution_plan)
    /\ execution_plan' = [execution_plan EXCEPT !.current_index = @ + 1]
    /\ trace' = Append(trace, "sequence_router")
    /\ UNCHANGED <<messages, router_decision, supervisor_decision, user_context,
                   agent_results, current_agent, agents_completed,
                   final_response, caller, returned, error, requests, routed,
                   routerVars, trimVars, supVars, goalVars, handlerVars>>

sequence_router_node ==
    /\ pc = "sequence_router"
    /\ pc' = route_sequence(execution_plan)
    /\ trace' = Append(trace, "sequence_router")
    /\ UNCHANGED <<threadVars, caller, returned, error, requests, routed,
                   routerVars, trimVars, supVars, goalVars, handlerVars>>

synthesizer_node ==
    /\ pc = "synthesizer"
    /\ LET text == IF Len(agent_results) = 1 THEN agent_results[1].result
                   ELSE _synthesize_multi_agent_results(agent_results)
       IN  /\ messages' = Append(messages, Message("assistant", text))
           /\ final_response' = Some(text)
    /\ pc' = "END"
    /\ trace' = Append(trace, "synthesizer")
    /\ UNCHANGED <<router_decision, supervisor_decision, user_context,
                   agent_results, current_agent, agents_completed,
                   execution_plan, caller, returned, error, requests,
                   routed, routerVars, trimVars, supVars, goalVars, handlerVars>>

Next ==
    \/ \E question \in Questions : ask_assistant(question)
    \/ \E question \in Questions : chat_with_assistant(question)
    \/ fast_router_node
    \/ \E response \in LLMResponses : supervisor_node(response)
    \/ \E agent_type \in AgentType, outcome \in HandlerOutcomes :
          _execute_agent_node(agent_type, outcome)
    \/ sequence_router_node
    \/ synthesizer_node

Spec == Init /\ [][Next]_vars

\* ------------------------------------------- fast_route on free inputs
NextInOrder(a) ==
    LET i == CHOOSE k \in 1..Len(PatternOrder) : PatternOrder[k] = a
    IN  PatternOrder[(i % Len(PatternOrder)) + 1]

RouterQuestions ==
    {[pat |-> p, kw |-> [a \in AgentType |->
                            IF a = w THEN t1
                            ELSE IF a = NextInOrder(w) THEN t2 ELSE 0],
      words |-> n, research |-> FALSE, create |-> FALSE, fb |-> {}] :
        p \in {{}} \cup {{a} : a \in AgentType} \cup {{"portfolio", a} : a \in AgentType},
        w \in AgentType, t1 \in 0..MaxKwTotal, t2 \in 0..MaxRunnerUp,
        n \in {4, MaxWords}}

RouterContexts ==
    {NoContext} \cup
    {Context([has_portfolio |-> hp, investment_stage |-> st, active_goals |-> ag], la) :
        hp \in {"unset", "true", "false"}, st \in {"unset", "potential"},
        ag \in {"unset", "nonempty"}, la \in AgentType \cup {None}}

RouterInit ==
    /\ ThreadInit
    /\ caller = "cli"
    /\ r_question \in RouterQuestions
    /\ r_context \in RouterContexts
    /\ r_decision = NoDecision
    /\ TrimIdle
    /\ SupervisorIdle
    /\ GoalIdle
    /\ HandlerIdle

apply_fast_route ==
    /\ r_decision = NoDecision
    /\ r_decision' = fast_route(r_question, r_context)
    /\ UNCHANGED <<threadVars, runVars, r_question, r_context, trimVars, supVars, goalVars, handlerVars>>

RouterNext == apply_fast_route

RouterSpec == RouterInit /\ [][RouterNext]_vars

\* --------------------------------------- trim_for_agent on free inputs
\* a conversation of n messages, alternating roles, the i-th one numbered i
Conversation(first, n) ==
    [i \in 1..n |->
        LET role == IF i % 2 = 1 THEN first
                    ELSE IF first = "user" THEN "assistant" ELSE "user"
        IN  Message(role, <<Line(role, "m", i)>>)]

TrimMessageLists ==
    {Conversation(first, n) : first \in {"user", "assistant"}, n \in 0..MaxTrimLen}

TrimAgentTypes == AgentType \cup {"general", "tax"}

TrimInit ==
    /\ ThreadInit
    /\ caller = "cli"
    /\ RouterIdle
    /\ t_messages \in TrimMessageLists
    /\ t_agent \in TrimAgentTypes
    /\ t_result = NotTrimmed
    /\ SupervisorIdle
    /\ GoalIdle
    /\ HandlerIdle

apply_trim_for_agent ==
    /\ ~t_result.set
    /\ t_result' = [set |-> TRUE, msgs |-> trim_for_agent(t_messages, t_agent)]
    /\ UNCHANGED <<threadVars, runVars, routerVars, t_messages, t_agent, supVars, goalVars, handlerVars>>

TrimNext == apply_trim_for_agent

TrimSpec == TrimInit /\ [][TrimNext]_vars

\* ------------------------------------- supervisor_route on free inputs
SupervisorQuestions ==
    Questions \cup {"Any tax on my goal?", "Should I save on market risks?",
                    "Tax on my portfolio holdings"}

SupervisorInit ==
    /\ ThreadInit
    /\ caller = "cli"
    /\ RouterIdle
    /\ TrimIdle
    /\ s_question \in SupervisorQuestions
    /\ s_response \in LLMResponses
    /\ s_result = NotSupervised
    /\ GoalIdle
    /\ HandlerIdle

apply_supervisor_route ==
    /\ ~s_result.set
    /\ s_result' = [set |-> TRUE, out |-> supervisor_route(s_question, s_response)]
    /\ UNCHANGED <<threadVars, runVars, routerVars, trimVars, s_question,
                   s_response, goalVars, handlerVars>>

SupervisorNext == apply_supervisor_route

SupervisorSpec == SupervisorInit /\ [][SupervisorNext]_vars

\* ------------------------------------------- goal tools of two threads
\* Each tool is a function of the store and its arguments giving the new
\* store and the returned text.
GoalNames == {"house", "car"}

ToolResult(session, text) == [session |-> session, text |-> text]

\* savings amounts a call may carry: a negative one and two valid ones
Savings == {-1, 0, 5}

\* the id of a new goal is one more than the number of stored goals
create_goal_reuses_ids(session, name, valid) ==
    IF ~valid THEN ToolResult(session, <<"Error">>)
    ELSE LET goal_id == Len(session.goals) + 1
             goal == [id |-> goal_id, name |-> name, current_savings |-> 0]
         IN  ToolResult([goals |-> Append(session.goals, goal),
                         current_goal_id |-> goal_id],
                        <<"created", goal>>)

\* valid = FALSE: an amount, priority, risk tolerance or date that fails the
\* validation; the function returns before the store is touched
create_goal(session, name, valid) ==
    IF ~valid THEN ToolResult(session, <<"Error">>)
    ELSE LET goal_id == session.current_goal_id + 1
             goal == [id |-> goal_id, name |-> name, current_savings |-> 0]
         IN  ToolResult([goals |-> Append(session.goals, goal),
                         current_goal_id |-> goal_id],
                        <<"created", goal>>)

update_goal_progress(session, goal_id, new_current_savings) ==
    IF ~\E i \in 1..Len(session.goals) : session.goals[i].id = goal_id
    THEN ToolResult(session, <<"Error", goal_id>>)
    ELSE IF new_current_savings < 0 THEN ToolResult(session, <<"Error">>)
    ELSE LET i == CHOOSE k \in 1..Len(session.goals) :
                     /\ session.goals[k].id = goal_id
                     /\ \A j \in 1..(k - 1) : session.goals[j].id # goal_id
         IN  ToolResult([session EXCEPT !.goals[i].current_savings = new_current_savings],
                        <<"updated", [session.goals[i] EXCEPT
                                        !.current_savings = new_current_savings]>>)

list_goals(session) ==
    IF session.goals = <<>> THEN ToolResult(session, <<"No goals found">>)
    ELSE ToolResult(session, <<"goals", session.goals>>)

delete_goal(session, goal_id) ==
    IF \E i \in 1..Len(session.goals) : session.goals[i].id = goal_id
    THEN LET goal_index == CHOOSE i \in 1..Len(session.goals) :
                               /\ session.goals[i].id = goal_id
                               /\ \A j \in 1..(i - 1) : session.goals[j].id # goal_id
         IN  ToolResult([session EXCEPT !.goals =
                            SubSeq(@, 1, goal_index - 1)
                            \o SubSeq(@, goal_index + 1, Len(@))],
                        <<"deleted", session.goals[goal_index]>>)
    ELSE ToolResult(session, <<"Error", goal_id>>)

ToolCalls == Len(g_seen["A"]) + Len(g_seen["B"])

\* a handler of thread t calls a tool: the tool works on the one store of
\* the process; g_alone records the same call on a store only t uses
CallTool(t, shared, alone) ==
    /\ ToolCalls < MaxToolCalls
    /\ GOALS_SESSION' = shared.session
    /\ g_seen' = [g_seen EXCEPT ![t] = Append(@, shared.text)]
    /\ g_alone' = [g_alone EXCEPT ![t] =
                      [session |-> alone.session, seen |-> Append(@.seen, alone.text)]]
    /\ UNCHANGED <<threadVars, runVars, routerVars, trimVars, supVars, handlerVars>>

call_create_goal(t, name, valid) ==
    /\ GOALS_SESSION.current_goal_id < MaxGoals
    /\ CallTool(t, create_goal(GOALS_SESSION, name, valid),
                   create_goal(g_alone[t].session, name, valid))

call_list_goals(t) ==
    CallTool(t, list_goals(GOALS_SESSION), list_goals(g_alone[t].session))

call_update_goal_progress(t, goal_id, new_current_savings) ==
    CallTool(t, update_goal_progress(GOALS_SESSION, goal_id, new_current_savings),
                update_goal_progress(g_alone[t].session, goal_id, new_current_savings))

call_delete_goal(t, goal_id) ==
    CallTool(t, delete_goal(GOALS_SESSION, goal_id),
                delete_goal(g_alone[t].session, goal_id))

GoalInit ==
    /\ ThreadInit
    /\ caller = "web"
    /\ RouterIdle
    /\ TrimIdle
    /\ SupervisorIdle
    /\ GoalIdle
    /\ HandlerIdle

GoalNext ==
    \/ \E t \in ThreadIds, name \in GoalNames, valid \in BOOLEAN :
          call_create_goal(t, name, valid)
    \/ \E t \in ThreadIds : call_list_goals(t)
    \/ \E t \in ThreadIds, goal_id \in 1..MaxGoals, new_current_savings \in Savings :
          call_update_goal_progress(t, goal_id, new_current_savings)
    \/ \E t \in ThreadIds, goal_id \in 1..MaxGoals : call_delete_goal(t, goal_id)

GoalSpec == GoalInit /\ [][GoalNext]_vars

\* ------------------------------- the handler step's context update
\* messages at the handler's call: the user's question, then the answers of
\* the handlers of the plan that ran before it
RECURSIVE AfterEarlier(_, _)
AfterEarlier(msgs, earlier) ==
    IF earlier = <<>> THEN msgs
    ELSE AfterEarlier(
             Append(msgs, Message("assistant",
                                  AGENT_FUNCTIONS(earlier[1], Len(msgs), "answer"))),
             Tail(earlier))

HandlerQuestions ==
    {"Should I invest in Tesla?", "I'm thinking about investing in Tesla",
     "I need a 401k question", "Hello there"}

HandlerContexts ==
    {[NoUserContext EXCEPT !.investment_stage = st] :
        st \in {"unset", "current", "potential"}}

\* a question the fast router routes direct is answered by that handler
\* alone; one it sends to the supervisor may get any plan
HandlerInit ==
    /\ ThreadInit
    /\ caller = "cli"
    /\ RouterIdle
    /\ TrimIdle
    /\ SupervisorIdle
    /\ GoalIdle
    /\ h_context \in HandlerContexts
    /\ h_agent \in AgentType
    /\ \E question \in HandlerQuestions, earlier \in SeqsUpTo(AgentType, MaxEarlier) :
          LET decision == fast_route(QuestionFeatures(question), Context(h_context, None))
          IN  /\ decision.route = "direct" => earlier = <<>> /\ h_agent = decision.agent
              /\ h_messages = AfterEarlier(<<Message("user", UserText(question))>>, earlier)
    /\ h_result = NotUpdated

apply_update_user_context ==
    /\ ~h_result.set
    /\ h_result' = [set |-> TRUE,
                    user_context |-> _update_user_context(
                                        last_question_of(h_messages, h_agent),
                                        h_agent, h_context)]
    /\ UNCHANGED <<threadVars, runVars, routerVars, trimVars, supVars, goalVars,
                   h_messages, h_agent, h_context>>

HandlerNext == apply_update_user_context

HandlerSpec == HandlerInit /\ [][HandlerNext]_vars

\* ================================================================ properties
Range(s) == {s[i] : i \in 1..Len(s)}

\* handlers invoked so far in the current request, in invocation order
Invoked == SelectSeq(trace, LAMBDA n : n \in AgentType)

\* runs of the synthesizer in the current request
SynthRuns == Len(SelectSeq(trace, LAMBDA n : n = "synthesizer"))

\* the current request was routed directly by the fast router
DirectRun ==
    /\ trace # <<>>
    /\ router_decision.route = "direct"
    /\ "supervisor" \notin Range(trace)

\* the supervisor ran in the current request and returned a decision
SupervisedRun == "supervisor" \in Range(trace) /\ error = ""

\* the decision of the current request is multi-handler (non-single mode)
MultiHandlerRun ==
    SupervisedRun /\ supervisor_decision.execution_mode \in {"sequential", "parallel"}

DecidedQueue ==
    <<supervisor_decision.primary_agent>> \o supervisor_decision.secondary_agents

IsPrefix(s, t) == Len(s) <= Len(t) /\ s = SubSeq(t, 1, Len(s))

\* C1: in a request whose supervisor decision is multi-handler with queue
\* Q = [primary] + secondary, the plan holds Q, the handlers invoked so far
\* are a prefix of Q in order, current_index equals the number of handlers
\* completed (0 at first, one more per completion), and the request ends
\* only when all of Q has been invoked, so current_index = Len(Q) comes only
\* after the last handler.
C1_QueueOrder ==
    MultiHandlerRun =>
        /\ execution_plan.present
        /\ execution_plan.agents_queue = DecidedQueue
        /\ IsPrefix(Invoked, DecidedQueue)
        /\ execution_plan.current_index = Len(Invoked)
        /\ (pc \in {"synthesizer", "END"} => Invoked = DecidedQueue)

C1_Witness ==
    /\ pc = "END"
    /\ MultiHandlerRun
    /\ Len(DecidedQueue) = 3
    /\ execution_plan.current_index = 3
    /\ DecidedQueue[1] # DecidedQueue[2]

\* C2: whenever the generation service returned a text, the supervisor
\* returns (no exception) a decision whose primary agent is an AgentType.
C2_SupervisorTotal ==
    ("supervisor" \in Range(trace) /\ error \notin {"ConfigError", "ServiceError"}) =>
        /\ error = ""
        /\ supervisor_decision.primary_agent \in AgentType
        /\ supervisor_decision.execution_mode \in {"single", "sequential", "parallel"}

\* C3: no request stops anywhere but in Terminal, and there final_response
\* is set (finite form of: every request eventually reaches Terminal with a
\* final response).
C3_RequestEndsWithResponse ==
    /\ pc # "RAISED"
    /\ (pc = "END" => final_response.set)

\* C4: within one request no handler is invoked more than once.
C4_NoHandlerTwice ==
    \A i, j \in 1..Len(Invoked) : i # j => Invoked[i] # Invoked[j]

\* C5: a request with exactly one handler scheduled (a direct route, or a
\* supervisor decision naming only one agent) has no execution plan and
\* enters neither the sequence router nor the synthesizer.
C5_SingleHandlerNoPlan ==
    (DirectRun \/ (SupervisedRun /\ supervisor_decision.secondary_agents = <<>>)) =>
        /\ ~execution_plan.present
        /\ "sequence_router" \notin Range(trace)
        /\ "synthesizer" \notin Range(trace)

\* number of handlers scheduled for the current request
Scheduled ==
    IF MultiHandlerRun THEN Len(DecidedQueue) ELSE 1

\* C6: once routing is decided, an execution plan is present exactly when
\* more than one handler is scheduled for the request.
C6_PlanIffMultiple ==
    (DirectRun \/ SupervisedRun) => (execution_plan.present <=> Scheduled > 1)

\* C7 as stated: every completed request has run the synthesizer exactly once.
C7_SynthesisExactlyOnce ==
    pc = "END" => SynthRuns = 1

\* C7 amended: the synthesizer runs at most once per request; when it runs a
\* plan is present and exhausted (current_index >= Len(agents_queue), and a
\* plan built in this request has had all its handlers invoked); a completed
\* request has run it exactly when a plan is present, and not at all when no
\* plan is present.
C7_SynthesisOncePerPlan ==
    /\ SynthRuns <= 1
    /\ (pc = "synthesizer" \/ SynthRuns = 1) =>
          /\ execution_plan.present
          /\ execution_plan.current_index >= Len(execution_plan.agents_queue)
          /\ (MultiHandlerRun => Invoked = DecidedQueue)
    /\ (pc = "END" => (SynthRuns = 1 <=> execution_plan.present))

C7_Witness ==
    /\ pc = "END"
    /\ SynthRuns = 1
    /\ MultiHandlerRun
    /\ Len(Invoked) = 2

\* the synthesis of exactly the handlers completed in this request, in
\* completion order
ExpectedSynthesis ==
    _synthesize_multi_agent_results(
        [i \in 1..Len(Invoked) |-> Entry(Invoked[i], returned[i])])

\* C8: a completed multi-handler request's final_response is one labeled
\* section per handler completed in the request, in completion order, and
\* one summary line counting them.
C8_SectionsMatchCompleted ==
    (pc = "END" /\ Len(Invoked) >= 2) => final_response = Some(ExpectedSynthesis)

\* C9: a completed single-handler request's final_response is exactly the
\* text its one handler returned, which is also agent_results[that agent].
C9_SingleVerbatim ==
    (pc = "END" /\ Len(Invoked) = 1) =>
        /\ final_response = Some(returned[1])
        /\ \E i \in 1..Len(agent_results) :
              agent_results[i] = Entry(Invoked[1], returned[1])

\* C10: a decision of fast_route is direct exactly when its confidence is
\* at least 0.85.
C10_DirectIffConfident ==
    r_decision # NoDecision =>
        (r_decision.route = "direct" <=> FracGE(r_decision.confidence, Frac(85, 100)))

C10_Witness ==
    /\ r_decision.route = "direct"
    /\ r_decision.confidence = Frac(85, 100)

InUnit(x) == FracGE(x, Frac(0, 1)) /\ FracGE(Frac(1, 1), x)

\* C11: every confidence the fast router computes for an input lies in
\* [0, 1]: the context-adjusted confidence of each matching pattern, and,
\* when no pattern routes and keyword scoring runs, the context-adjusted
\* keyword confidence of the top-scoring agent and the value
\* _calculate_confidence returns for it; so does the confidence stored in
\* the decision.
C11_ConfidenceInUnit ==
    r_decision # NoDecision =>
        /\ InUnit(r_decision.confidence)
        /\ \A a \in r_question.pat :
           \A c \in {PatternConfidence(a, r_context)} : InUnit(c)
        /\ _try_pattern_matching(r_question, r_context) = NoDecision =>
           \A winner \in {sorted_agents(r_question)[1]} :
           \A runner_up \in {sorted_agents(r_question)[2]} :
           \A winner_score \in {_calculate_keyword_score(r_question, winner)} :
           \A runner_up_score \in {_calculate_keyword_score(r_question, runner_up)} :
              /\ (winner_score.n # 0 /\ r_context.present) =>
                     \A c \in {_adjust_confidence_for_context(
                                   MarginConfidence(winner_score, runner_up_score),
                                   winner, r_context)} : InUnit(c)
              /\ \A c \in {_calculate_confidence(winner_score, runner_up_score,
                                                 r_context, winner)} : InUnit(c)

\* the boosts of a pattern match add up to more than 1 before clamping
C11_Witness ==
    /\ r_decision.route = "direct"
    /\ r_decision.agent = "goal_planning"
    /\ r_context.last_agent = "goal_planning"
    /\ r_context.user_context.active_goals = "nonempty"
    /\ r_decision.context_hints.pattern_matched = "goal_planning"
    /\ r_decision.confidence = Frac(1, 1)

C13_TrimIsSuffix ==
    t_result.set =>
        LET N == IF t_agent \in {"education", "market", "news"} THEN 6
                 ELSE IF t_agent \in {"goal_planning", "portfolio"} THEN 15
                 ELSE 10
            k == IF Len(t_messages) < N THEN Len(t_messages) ELSE N
        IN  /\ Len(t_result.msgs) = k
            /\ \A i \in 1..k : t_result.msgs[i] = t_messages[Len(t_messages) - k + i]
            /\ (t_agent = "portfolio" => Len(t_result.msgs) <= 15)
            /\ (t_agent = "market" => Len(t_result.msgs) <= 6)

C13_Witness ==
    /\ t_result.set
    /\ t_agent = "portfolio"
    /\ Len(t_messages) = 17
    /\ Len(t_result.msgs) = 15
    /\ t_result.msgs[1] = t_messages[3]

\* C14: an exception that leaves a request is a ConfigError; no other
\* failure stops a request short of Terminal.
C14_OnlyConfigErrorEscapes ==
    pc = "RAISED" => error = "ConfigError"

IsErrorText(text) == \E i \in 1..Len(text) : text[i].k = "error"

\* the synthesized text has a section of `agent` whose body is `result`
HasSection(text, agent, result) ==
    \E i \in 1..Len(text) :
        /\ text[i] = Line("hdr", agent, 0)
        /\ i + 1 + Len(result) <= Len(text)
        /\ SubSeq(text, i + 2, i + 1 + Len(result)) = result

\* C15: in a plan of several handlers a handler that fails inside has its
\* error text recorded in agent_results when it completes; current_index
\* still counts it, the rest of the queue is still invoked in order, the
\* synthesizer still runs, and the final response has that handler's
\* section with the error text.
C15_FailedHandlerDegrades ==
    (MultiHandlerRun /\ Len(DecidedQueue) >= 2) =>
        /\ execution_plan.current_index = Len(Invoked)
        /\ IsPrefix(Invoked, DecidedQueue)
        /\ (Invoked # <<>> /\ pc # "END") =>
              HasKey(agent_results, Invoked[Len(Invoked)])
        /\ \A k \in 1..Len(returned) :
              (IsErrorText(returned[k]) /\ pc = "END") =>
                  /\ Invoked = DecidedQueue
                  /\ SynthRuns = 1
                  /\ \E i \in 1..Len(agent_results) :
                        agent_results[i] = Entry(Invoked[k], returned[k])
                  /\ HasSection(final_response.text, Invoked[k], returned[k])

\* the raw output has no JSON object, or its JSON fails to parse
Unparsable(response) ==
    \/ response.kind \in {"text", "badjson"}
    \/ response.kind = "json" /\ ~response.secondary_iterable

\* C16: for a raw output without JSON, or one that fails to parse, the
\* supervisor returns (no exception) a single-mode decision without
\* secondary agents whose primary agent is an AgentType: the one of the
\* first keyword class present in the question, in the order portfolio,
\* goal, market, news, and education when no class is present.
C16_FallbackByPriority ==
    (s_result.set /\ Unparsable(s_response)) =>
        LET fb == QuestionFeatures(s_question).fb
            d == s_result.out.decision
        IN  /\ ~s_result.out.raised
            /\ d.execution_mode = "single"
            /\ d.secondary_agents = <<>>
            /\ d.primary_agent \in AgentType
            /\ ("portfolio" \in fb => d.primary_agent = "portfolio")
            /\ ("goal" \in fb /\ "portfolio" \notin fb => d.primary_agent = "goal_planning")
            /\ ("market" \in fb /\ fb \cap {"portfolio", "goal"} = {}
                  => d.primary_agent = "market")
            /\ ("news" \in fb /\ fb \cap {"portfolio", "goal", "market"} = {}
                  => d.primary_agent = "news")
            /\ (fb = {} => d.primary_agent = "education")

\* C17: a decision of fast_route with route = "supervisor" carries the
\* adjusted confidence computed for the best candidate (of the matched
\* pattern, else of the keyword winner), and its context_hints hold the
\* matched pattern or the top three keyword scores.
C17_SupervisorCarriesHints ==
    r_decision.route = "supervisor" =>
        /\ (r_question.pat = {} =>
              r_decision.confidence = KeywordConfidence(r_question, r_context))
        /\ (r_question.pat # {} =>
              \/ \E a \in r_question.pat :
                    r_decision.confidence = PatternConfidence(a, r_context)
              \/ r_decision.confidence = KeywordConfidence(r_question, r_context))
        /\ \/ r_decision.context_hints.pattern_matched \in r_question.pat
           \/ r_decision.context_hints.keyword_scores # <<>>

\* C18: during every request of a thread, whichever caller sent it,
\* agents_completed is as long as the number of handler invocations made
\* so far in the request, and no step of the request shortens it.
C18_CompletedCountsInvocations ==
    /\ [](pc # "idle" => Len(agents_completed) = Len(Invoked))
    /\ [][requests' = requests =>
            Len(agents_completed') >= Len(agents_completed)]_vars

\* C19: once a portfolio completion has set has_portfolio = true on a
\* thread, no later step of the thread unsets it, and the fast router of
\* every later request reads a context in which it is true.
C19_HasPortfolioKept ==
    [][user_context.has_portfolio = "true" =>
          /\ user_context'.has_portfolio = "true"
          /\ (Len(routed') > Len(routed) =>
                routed'[Len(routed')].context.user_context.has_portfolio = "true")]_vars

\* C20: requests on different thread ids are independent: what the tools
\* of a thread's handlers return to it, goal store included, is what they
\* would return had no other thread made a request.
C20_ThreadsIndependent ==
    \A t \in ThreadIds : g_seen[t] = g_alone[t].seen

\* C21: with no context, a question matching a portfolio pattern is routed
\* direct to portfolio with confidence 0.95, whatever other agents' patterns
\* match it too.
C21_PortfolioPatternFirst ==
    (r_decision # NoDecision /\ ~r_context.present /\ "portfolio" \in r_question.pat) =>
        /\ r_decision.route = "direct"
        /\ r_decision.agent = "portfolio"
        /\ r_decision.confidence = Frac(95, 100)

\* a question matching a portfolio and a market pattern was routed
C21_Witness ==
    /\ r_decision.route = "direct"
    /\ r_decision.agent = "portfolio"
    /\ ~r_context.present
    /\ r_question.pat = {"portfolio", "market"}
    /\ r_decision.context_hints.pattern_matched = "portfolio"

\* C22: fast_route on "Tell me about Apple" with no context defers to the
\* supervisor with a confidence below 0.85; it routes direct to no agent.
C22_AmbiguousDeferred ==
    (r_decision # NoDecision /\ ~r_context.present
        /\ r_question = QuestionFeatures("Tell me about Apple")) =>
        /\ r_decision.route = "supervisor"
        /\ r_decision.agent = None
        /\ FracLT(r_decision.confidence, DIRECT_ROUTE_THRESHOLD)

\* the agent of the first EXACT_PATTERNS entry that matches the question
FirstMatch(q) ==
    PatternOrder[CHOOSE i \in 1..Len(PatternOrder) :
                    /\ PatternOrder[i] \in q.pat
                    /\ \A j \in 1..(i - 1) : PatternOrder[j] \notin q.pat]

\* C23: when a pattern matches, the first match alone decides: its
\* confidence is 0.95 adjusted by the context; the decision is direct to
\* that agent when it is at least 0.85 and supervisor otherwise; no later
\* pattern, other agent or keyword score changes it.
C23_FirstMatchDecides ==
    (r_decision # NoDecision /\ r_question.pat # {}) =>
        LET agent_type == FirstMatch(r_question)
            confidence == PatternConfidence(agent_type, r_context)
        IN  IF FracGE(confidence, DIRECT_ROUTE_THRESHOLD)
            THEN /\ r_decision.route = "direct"
                 /\ r_decision.agent = agent_type
                 /\ r_decision.confidence = confidence
            ELSE r_decision.route = "supervisor"

\* the adjustment the rules give candidate a under the context, in hundredths
RuleDelta(a, context) ==
    (IF context.last_agent = a THEN 5 ELSE 0)
    - (IF a = "portfolio" /\ context.user_context.has_portfolio = "false" THEN 20 ELSE 0)
    + (IF a = "goal_planning" /\ context.user_context.active_goals = "nonempty"
       THEN 5 ELSE 0)
    + (IF a = "news" /\ context.user_context.investment_stage = "potential"
       THEN 5 ELSE 0)

\* base plus the rule adjustment, cut to [0, 1]
RuleConfidence(base, a, context) ==
    LET sum == FracAdd(base, Frac(RuleDelta(a, context), 100))
    IN  IF FracLT(sum, Frac(0, 1)) THEN Frac(0, 1)
        ELSE IF FracGT(sum, Frac(1, 1)) THEN Frac(1, 1) ELSE sum

\* in both phases the candidate's confidence under a context is the base
\* plus the rule adjustment, clamped; a direct decision stores that value
AdjustedByRules ==
    (r_decision # NoDecision /\ r_context.present) =>
        /\ \A a \in AgentType :
              PatternConfidence(a, r_context) = RuleConfidence(Frac(95, 100), a, r_context)
        /\ (r_decision.route = "direct" /\ r_decision.context_hints.pattern_matched # None) =>
              r_decision.confidence =
                  RuleConfidence(Frac(95, 100), r_decision.agent, r_context)
        /\ _try_pattern_matching(r_question, r_context) = NoDecision =>
           \A winner \in {sorted_agents(r_question)[1]} :
           \A runner_up \in {sorted_agents(r_question)[2]} :
           \A winner_score \in {_calculate_keyword_score(r_question, winner)} :
           \A runner_up_score \in {_calculate_keyword_score(r_question, runner_up)} :
              winner_score.n # 0 =>
                 \A expected \in {RuleConfidence(
                                     MarginConfidence(winner_score, runner_up_score),
                                     winner, r_context)} :
                    /\ _calculate_confidence(winner_score, runner_up_score,
                                             r_context, winner) = expected
                    /\ r_decision.route = "direct" => r_decision.confidence = expected

\* C24 as stated: the exact adjustments, and a pattern match falls below the
\* direct threshold only for a portfolio candidate with has_portfolio =
\* false and a last agent other than portfolio.
C24_AdjustmentAsStated ==
    /\ AdjustedByRules
    /\ (r_decision # NoDecision /\ r_context.present) =>
          \A a \in AgentType :
              FracLT(PatternConfidence(a, r_context), DIRECT_ROUTE_THRESHOLD)
              <=> (a = "portfolio" /\ r_context.user_context.has_portfolio = "false"
                     /\ r_context.last_agent # "portfolio")

\* C24: the exact adjustments, and a pattern match falls below the direct
\* threshold exactly for a portfolio candidate with has_portfolio = false,
\* whatever the last agent is (0.75, or 0.80 with the continuity boost).
C24_AdjustmentExact ==
    /\ AdjustedByRules
    /\ (r_decision # NoDecision /\ r_context.present) =>
          \A a \in AgentType :
              FracLT(PatternConfidence(a, r_context), DIRECT_ROUTE_THRESHOLD)
              <=> (a = "portfolio" /\ r_context.user_context.has_portfolio = "false")

\* a portfolio pattern matched right after a portfolio answer, has_portfolio
\* false: 0.95 + 0.05 - 0.20 = 0.80, and the portfolio match did not route
C24_Witness ==
    /\ r_decision # NoDecision
    /\ r_context.present
    /\ r_context.last_agent = "portfolio"
    /\ r_context.user_context.has_portfolio = "false"
    /\ r_question.pat = {"portfolio"}
    /\ PatternConfidence("portfolio", r_context) = Frac(80, 100)
    /\ r_decision.context_hints.pattern_matched = None

\* s is t with the entries that are no AgentType name left out, order kept
RECURSIVE IsValidSubsequence(_, _)
IsValidSubsequence(s, t) ==
    IF t = <<>> THEN s = <<>>
    ELSE IF t[1] \in AgentType
         THEN s # <<>> /\ s[1] = t[1] /\ IsValidSubsequence(Tail(s), Tail(t))
         ELSE IsValidSubsequence(s, Tail(t))

\* the decision was built from the JSON fields one by one
BuiltFieldByField ==
    LET d == s_result.out.decision
    IN  /\ ~s_result.out.raised
        /\ d.primary_agent = (IF s_response.primary_agent \in AgentType
                              THEN s_response.primary_agent ELSE "education")
        /\ IsValidSubsequence(d.secondary_agents, s_response.secondary_agents)
        /\ d.execution_mode =
              (IF s_response.execution_mode \in {"single", "sequential", "parallel"}
               THEN s_response.execution_mode ELSE "single")

C26_SequenceRouterPassThrough ==
    [][pc = "sequence_router" =>
          /\ UNCHANGED <<messages, agent_results, agents_completed, user_context,
                         execution_plan, final_response, router_decision,
                         supervisor_decision, current_agent>>
          /\ execution_plan.present
          /\ pc' = IF execution_plan.current_index < Len(execution_plan.agents_queue)
                   THEN execution_plan.agents_queue[execution_plan.current_index + 1]
                   ELSE "synthesizer"]_vars

\* the sequence router has just sent the request on to the second handler
C26_Witness ==
    /\ trace # <<>>
    /\ trace[Len(trace)] = "sequence_router"
    /\ execution_plan.present
    /\ execution_plan.current_index = 1
    /\ Len(execution_plan.agents_queue) >= 2
    /\ pc = execution_plan.agents_queue[2]
    /\ Len(agents_completed) = 1

\* the same decision with execution_mode = "sequential"
SequentialTwin(decision) == [decision EXCEPT !.execution_mode = "sequential"]

\* the supervisor of the current request decided the parallel mode
ParallelRun == SupervisedRun /\ supervisor_decision.execution_mode = "parallel"

\* C27: a parallel decision is executed as the same decision in sequential
\* mode would be: the plan built is the sequential one, [primary] +
\* secondary; the first handler is the one the sequential decision routes
\* to; the handlers run one per step in queue order, each adding its name
\* to agents_completed and its text to agent_results; the synthesizer runs
\* once at the end and sets final_response from agent_results.
C27_ParallelAsSequential ==
    /\ [](ParallelRun =>
            /\ execution_plan =
                  [PlanFor(SequentialTwin(supervisor_decision))
                      EXCEPT !.current_index = Len(Invoked)]
            /\ IsPrefix(Invoked, DecidedQueue)
            /\ (pc = "END" => Invoked = DecidedQueue /\ SynthRuns = 1))
    /\ [][(ParallelRun' /\ "supervisor" \notin Range(trace)) =>
            pc' = route_after_supervisor(SequentialTwin(supervisor_decision'))]_vars
    /\ [][(ParallelRun /\ ParallelRun') =>
            /\ Len(trace') = Len(trace) + 1
            /\ LET n == trace'[Len(trace')]
               IN  /\ n \in AgentType =>
                        /\ n = DecidedQueue[Len(Invoked) + 1]
                        /\ agents_completed' = Append(agents_completed, n)
                        /\ agent_results' =
                              DictSet(agent_results, n, returned'[Len(returned')])
                        /\ final_response' = Some(returned'[Len(returned')])
                   /\ n = "synthesizer" =>
                        /\ UNCHANGED <<agent_results, agents_completed>>
                        /\ final_response' =
                              Some(IF Len(agent_results) = 1
                                   THEN agent_results[1].result
                                   ELSE _synthesize_multi_agent_results(agent_results))
                   /\ n \in AgentType \cup {"synthesizer", "sequence_router"}]_vars

\* a parallel decision with three handlers has been run to the end
C27_Witness ==
    /\ pc = "END"
    /\ ParallelRun
    /\ Len(DecidedQueue) = 3
    /\ Invoked = DecidedQueue
    /\ SynthRuns = 1
    /\ Len(agent_results) >= 2

\* the user's question of the current request: the newest user message
RECURSIVE CurrentQuestion(_)
CurrentQuestion(msgs) ==
    IF msgs = <<>> THEN <<>>
    ELSE IF msgs[Len(msgs)].role = "user" THEN msgs[Len(msgs)].content
         ELSE CurrentQuestion(SubSeq(msgs, 1, Len(msgs) - 1))

\* C28: when the news handler completes, investment_stage becomes
\* "potential" if the user's question of the request has research-intent
\* phrasing and is left as it was if not, whatever place news has in the
\* plan.
C28_ResearchIntentFromQuestion ==
    (h_result.set /\ h_agent = "news") =>
        IF ContainsResearchIntent(CurrentQuestion(h_messages))
        THEN h_result.user_context.investment_stage = "potential"
        ELSE h_result.user_context.investment_stage = h_context.investment_stage

\* C29: in every state of a thread a present execution plan has
\* 0 <= current_index <= len(agents_queue), and a request starts with no
\* plan of the previous request left over with current_index > 0.
C29_PlanIndexInRange ==
    /\ execution_plan.present =>
          /\ 0 <= execution_plan.current_index
          /\ execution_plan.current_index <= Len(execution_plan.agents_queue)
    /\ (pc = "fast_router" /\ trace = <<>>) =>
          ~(execution_plan.present /\ execution_plan.current_index > 0)

\* ids of the goals that create_goal has reported as created so far
IssuedIds ==
    UNION {{g_seen[t][k][2].id : k \in {n \in 1..Len(g_seen[t]) :
                                          g_seen[t][n][1] = "created"}} :
           t \in ThreadIds}

\* C30: after any sequence of create_goal, update_goal_progress and
\* delete_goal calls the stored goals have pairwise distinct ids; every
\* successful create_goal returns an id greater than every id issued before
\* (no reuse after a delete); a call that returns an Error result leaves
\* the goal list and the id counter as they were.
C30_GoalIdsFresh ==
    /\ [](\A i, j \in 1..Len(GOALS_SESSION.goals) :
            i # j => GOALS_SESSION.goals[i].id # GOALS_SESSION.goals[j].id)
    /\ [][\A t \in ThreadIds :
            Len(g_seen'[t]) > Len(g_seen[t]) =>
               LET text == g_seen'[t][Len(g_seen'[t])]
               IN  /\ text[1] = "created" =>
                        /\ \A id \in IssuedIds : text[2].id > id
                        /\ \A i \in 1..Len(GOALS_SESSION.goals) :
                              text[2].id > GOALS_SESSION.goals[i].id
                        /\ GOALS_SESSION'.goals = Append(GOALS_SESSION.goals, text[2])
                   /\ text[1] = "Error" => GOALS_SESSION' = GOALS_SESSION]_vars

\* goal 1 was created and deleted, and the next goal created got id 2
C30_Witness ==
    /\ GOALS_SESSION.current_goal_id = 2
    /\ Len(GOALS_SESSION.goals) = 1
    /\ GOALS_SESSION.goals[1].id = 2
    /\ IssuedIds = {1, 2}

====
